---- MODULE Spec2Model ----
(***************************************************************************)
(* A model of copychat's file discovery and filtering engine               *)
(* (src/src/copychat/core.py) and of the command that drives it            *)
(* (src/src/copychat/cli.py).                                              *)
(*                                                                         *)
(* Strings are sequences of one-character strings, so that lower(),        *)
(* lstrip("."), strip(), Path.suffix and glob matching are computed and    *)
(* not assumed.  Texts (file contents, diffs, formatted output) are        *)
(* sequences of tokens.  A path is a sequence of components, each a        *)
(* string; the filesystem root is the empty path.                          *)
(***************************************************************************)
EXTENDS Integers, Sequences, FiniteSets, TLC

(***************************************************************************)
(* Bounds of the model.                                                    *)
(***************************************************************************)
\* number of directories between the filesystem root and the working directory
CwdDepth == 2
\* greatest number of path arguments of one command invocation
MaxPaths == 2

(***************************************************************************)
(* Optional values (Python's None).                                        *)
(***************************************************************************)
None == [some |-> FALSE, v |-> <<>>]
Some(x) == [some |-> TRUE, v |-> x]

(***************************************************************************)
(* Strings.                                                                *)
(***************************************************************************)
UpperChars == <<"A","B","C","D","E","F","G","H","I","J","K","L","M",
                "N","O","P","Q","R","S","T","U","V","W","X","Y","Z">>
LowerChars == <<"a","b","c","d","e","f","g","h","i","j","k","l","m",
                "n","o","p","q","r","s","t","u","v","w","x","y","z">>

LowerChar(c) ==
    IF \E i \in 1..Len(UpperChars) : UpperChars[i] = c
    THEN LowerChars[CHOOSE i \in 1..Len(UpperChars) : UpperChars[i] = c]
    ELSE c

\* str.lower()
Lower(s) == [i \in 1..Len(s) |-> LowerChar(s[i])]

\* str.lstrip(".")
RECURSIVE LStripDots(_)
LStripDots(s) ==
    IF s # <<>> /\ Head(s) = "." THEN LStripDots(Tail(s)) ELSE s

IsSpace(c) == c \in {" ", "\t", "\n"}

RECURSIVE LStrip(_)
LStrip(s) == IF s # <<>> /\ IsSpace(Head(s)) THEN LStrip(Tail(s)) ELSE s

RECURSIVE RStrip(_)
RStrip(s) ==
    IF s # <<>> /\ IsSpace(s[Len(s)]) THEN RStrip(SubSeq(s, 1, Len(s) - 1)) ELSE s

\* str.strip()
Strip(s) == LStrip(RStrip(s))

\* str.startswith(c) for a one-character prefix
StartsWith(s, c) == s # <<>> /\ Head(s) = c

\* a in b, for strings: a is a substring of b
IsSubstring(a, b) ==
    \E i \in 1..(Len(b) + 1) :
        i + Len(a) - 1 <= Len(b) /\ SubSeq(b, i, i + Len(a) - 1) = a

\* PurePath.suffix of a file name: from the last dot on, unless the name has
\* no dot, starts with its only dot or ends with a dot
Suffix(name) ==
    IF \E i \in 1..Len(name) : name[i] = "."
    THEN LET i == CHOOSE j \in 1..Len(name) :
                     name[j] = "." /\ \A k \in (j + 1)..Len(name) : name[k] # "."
         IN  IF 1 < i /\ i < Len(name) THEN SubSeq(name, i, Len(name)) ELSE <<>>
    ELSE <<>>

\* the elements of a sequence
Range(s) == {s[i] : i \in 1..Len(s)}

(***************************************************************************)
(* Paths.                                                                  *)
(***************************************************************************)
\* Path.parent: the filesystem root is its own parent
Parent(p) == IF p = <<>> THEN <<>> ELSE SubSeq(p, 1, Len(p) - 1)

\* Path.name
Name(p) == IF p = <<>> THEN <<>> ELSE p[Len(p)]

IsPrefix(a, b) == Len(a) <= Len(b) /\ SubSeq(b, 1, Len(a)) = a

(***************************************************************************)
(* Built-in configuration (copychat/patterns.py).                          *)
(***************************************************************************)
DEFAULT_EXTENSIONS == <<<<"p","y">>, <<"j","s">>>>
EXCLUDED_DIRS == <<<<".","g","i","t">>, <<"b","u","i","l","d">>>>
EXCLUDED_PATTERNS == <<<<"*",".","p","y","c">>, <<"*",".","l","o","c","k">>>>

(***************************************************************************)
(* The filesystem the program runs on: a working directory CwdDepth below  *)
(* the filesystem root, holding                                            *)
(*     a.py  b.PY  c.pyc  build/gen.py  debug.log  important.log           *)
(*     src/main.py                                                         *)
(***************************************************************************)
W == <<"w">>
A_PY == <<"a",".","p","y">>
B_PY == <<"b",".","P","Y">>
C_PYC == <<"c",".","p","y","c">>
BUILD == <<"b","u","i","l","d">>
GEN_PY == <<"g","e","n",".","p","y">>
DEBUG_LOG == <<"d","e","b","u","g",".","l","o","g">>
IMPORTANT_LOG == <<"i","m","p","o","r","t","a","n","t",".","l","o","g">>
SRC == <<"s","r","c">>
MAIN_PY == <<"m","a","i","n",".","p","y">>
MISSING == <<"m","i","s","s","i","n","g">>

\* the absolute path of the working directory
Cwd == [i \in 1..CwdDepth |-> W]

\* every entry below the working directory, by its path relative to it, in
\* the order a traversal meets them
TreeSeq ==
    << <<A_PY>>, <<B_PY>>, <<C_PYC>>, <<BUILD>>, <<BUILD, GEN_PY>>,
       <<DEBUG_LOG>>, <<IMPORTANT_LOG>>, <<SRC>>, <<SRC, MAIN_PY>> >>

Dirs == {<<BUILD>>, <<SRC>>}
Files == Range(TreeSeq) \ Dirs

\* Path.is_file() and Path.is_dir() of a path relative to the working directory
is_file(p) == p \in Files
is_dir(p) == p = <<>> \/ p \in Dirs

\* Path.absolute()
absolute(p) == Cwd \o p

\* the text of each file
FileText(f) ==
    CASE f = <<A_PY>> -> <<"print(1)">>
      [] f = <<B_PY>> -> <<>>
      [] f = <<C_PYC>> -> <<"bytecode">>
      [] f = <<BUILD, GEN_PY>> -> <<"generated">>
      [] f = <<DEBUG_LOG>> -> <<"noise">>
      [] f = <<IMPORTANT_LOG>> -> <<"keep">>
      [] f = <<SRC, MAIN_PY>> -> <<"def main():", "\n", "pass">>
      [] OTHER -> <<>>

\* what `git diff <file>` prints in a working tree where a.py, important.log
\* and src/main.py have uncommitted changes
WorkingTreeDiff(f) ==
    CASE f = <<A_PY>> -> <<"@@ a.py @@">>
      [] f = <<IMPORTANT_LOG>> -> <<"@@ important.log @@">>
      [] f = <<SRC, MAIN_PY>> -> <<"@@ src/main.py @@", "\n", "+pass">>
      [] OTHER -> <<>>

\* the directories a .gitignore search can visit: the working directory, its
\* ancestors up to the filesystem root, and src
ChainDirs == {SubSeq(Cwd, 1, k) : k \in 0..CwdDepth} \cup {Cwd \o <<SRC>>}

\* the lines a .gitignore may hold (each with its line end)
GI_COMMENT == <<"#"," ","l","o","g","s","\n">>
GI_BLANK == <<"\n">>
GI_LOGS == <<"*",".","l","o","g","\n">>
GI_KEEP == <<"!","i","m","p","o","r","t","a","n","t",".","l","o","g","\n">>
GI_INDENTED == <<" "," ","#"," ","s","r","c","\n">>
GI_MAIN == <<"m","a","i","n",".","p","y"," ","\n">>

GitignoreTexts ==
    { <<GI_COMMENT, GI_BLANK, GI_LOGS, GI_KEEP>>,
      <<GI_INDENTED, GI_MAIN>> }

\* where the .gitignore files are
GitignoreLayouts ==
    { {}, {Cwd}, {<<>>}, {Cwd, Cwd \o <<SRC>>} }

\* An environment: gi, the directories holding a .gitignore; giLines, its
\* lines; giReadable, whether it can be opened; git, the state of the
\* version-control binary ("ok", "failing": every diff exits non-zero,
\* "missing": no binary); unreadable, the files whose text cannot be read.
Env(gi, giLines, giReadable, git, unreadable) ==
    [gi |-> gi, giLines |-> giLines, giReadable |-> giReadable, git |-> git,
     unreadable |-> unreadable]

DefaultLines == <<GI_COMMENT, GI_BLANK, GI_LOGS, GI_KEEP>>

Envs ==
    { Env(gi, l, r, g, u) :
        gi \in GitignoreLayouts, l \in GitignoreTexts, r \in BOOLEAN,
        g \in {"ok", "failing", "missing"}, u \in {{}, {<<SRC, MAIN_PY>>}} }

(***************************************************************************)
(* pathspec's gitwildmatch patterns, for patterns of one segment: a glob   *)
(* of literal characters and "*", an optional leading "!" and an optional  *)
(* trailing "/".                                                           *)
(***************************************************************************)
\* one path component against one glob segment ("*" is any run of characters)
RECURSIVE GlobMatch(_, _)
GlobMatch(g, s) ==
    IF g = <<>> THEN s = <<>>
    ELSE IF Head(g) = "*"
         THEN GlobMatch(Tail(g), s) \/ (s # <<>> /\ GlobMatch(g, Tail(s)))
         ELSE s # <<>> /\ Head(s) = Head(g) /\ GlobMatch(Tail(g), Tail(s))

\* a pattern line compiled: include is "exclude" for a plain pattern,
\* "negate" for one starting with "!", "none" for a blank line or a comment
CompilePattern(line) ==
    LET p == RStrip(line)
        neg == StartsWith(p, "!")
        q == IF neg THEN Tail(p) ELSE p
        dirOnly == q # <<>> /\ q[Len(q)] = "/"
        g == IF dirOnly THEN SubSeq(q, 1, Len(q) - 1) ELSE q
    IN  IF p = <<>> \/ StartsWith(p, "#")
        THEN [include |-> "none", dirOnly |-> FALSE, glob |-> <<>>]
        ELSE [include |-> IF neg THEN "negate" ELSE "exclude",
              dirOnly |-> dirOnly, glob |-> g]

\* a compiled pattern against a root-relative file path: a pattern with no
\* inner "/" matches at any depth, a file or a directory and all below it; one
\* ending in "/" matches directories only
PatternMatches(pat, rel) ==
    /\ pat.include # "none"
    /\ \E i \in 1..(IF pat.dirOnly THEN Len(rel) - 1 ELSE Len(rel)) :
           GlobMatch(pat.glob, rel[i])

\* PathSpec.match_file: the last pattern that matches decides
RECURSIVE match_file(_, _)
match_file(patterns, rel) ==
    IF patterns = <<>> THEN FALSE
    ELSE LET last == CompilePattern(patterns[Len(patterns)])
         IN  IF PatternMatches(last, rel)
             THEN last.include = "exclude"
             ELSE match_file(SubSeq(patterns, 1, Len(patterns) - 1), rel)

(***************************************************************************)
(* Arguments.                                                              *)
(***************************************************************************)
FULL == "full"
FULL_WITH_DIFF == "full-with-diff"
CHANGED_WITH_DIFF == "changed-with-diff"
DIFF_ONLY == "diff-only"
DiffMode == {FULL, FULL_WITH_DIFF, CHANGED_WITH_DIFF, DIFF_ONLY}

\* The include argument: absent, a list of strings (the core's callers), or
\* one string (what the command passes on from --include).
NoInclude == [kind |-> "none", val |-> <<>>]
ListInclude(l) == [kind |-> "list", val |-> l]
StrInclude(s) == [kind |-> "str", val |-> s]

\* bool(include)
Truthy(include) == include.kind # "none" /\ include.val # <<>>

\* for ext in include: the items of a list, the characters of a string
Iter(include) ==
    IF include.kind = "str"
    THEN [i \in 1..Len(include.val) |-> <<include.val[i]>>]
    ELSE include.val

\* x in include: membership in a list, substring of a string
Contains(x, include) ==
    IF include.kind = "str" THEN IsSubstring(x, include.val)
    ELSE x \in Range(include.val)

(***************************************************************************)
(* core.py                                                                 *)
(***************************************************************************)
\* gitignore.is_file() for the .gitignore of an absolute directory
has_gitignore(dir, e) == dir \in e.gi

\* the list get_gitignore_spec builds before it looks for a .gitignore
base_patterns(extra_patterns) ==
    EXCLUDED_PATTERNS
    \o [i \in 1..Len(EXCLUDED_DIRS) |-> EXCLUDED_DIRS[i] \o <<"/">>]
    \o (IF extra_patterns.some /\ extra_patterns.v # <<>>
        THEN extra_patterns.v ELSE <<>>)

\* whether get_gitignore_spec looks for a .gitignore at all
searches_gitignore(verbose) == verbose

\* the lines of a .gitignore that become patterns, stripped
keeps_line(line) == Strip(line) # <<>> /\ ~StartsWith(line, "#")

gitignore_patterns(lines) ==
    LET kept == SelectSeq(lines, keeps_line)
    IN  [i \in 1..Len(kept) |-> Strip(kept[i])]

\* subprocess.run(["git", "diff", path], check=True)
subprocess_run(f, e) ==
    CASE e.git = "missing" -> [exc |-> "FileNotFoundError", stdout |-> <<>>]
      [] e.git = "failing" -> [exc |-> "CalledProcessError", stdout |-> <<>>]
      [] OTHER -> [exc |-> "none", stdout |-> WorkingTreeDiff(f)]

\* the exceptions get_git_diff catches
caught_by_get_git_diff(exc) == exc = "CalledProcessError"

get_git_diff(f, e) ==
    LET r == subprocess_run(f, e)
    IN  IF r.exc = "none" THEN [raised |-> "none", value |-> r.stdout]
        ELSE IF caught_by_get_git_diff(r.exc) THEN [raised |-> "none", value |-> <<>>]
        ELSE [raised |-> r.exc, value |-> <<>>]

\* Path.read_text()
read_text(f, e) ==
    IF f \in e.unreadable THEN [raised |-> "PermissionError", value |-> <<>>]
    ELSE [raised |-> "none", value |-> FileText(f)]

\* a variant that retrieves the diff in every mode
retrieves_diff_always(diff_mode) == TRUE

\* whether get_file_content retrieves the diff
retrieves_diff(diff_mode) == diff_mode # FULL

\* whether get_file_content returns None
skips_file(diff, diff_mode) ==
    diff = <<>> /\ diff_mode \in {CHANGED_WITH_DIFF, DIFF_ONLY}

\* a variant that appends the diff without separator and heading
with_diff_no_heading(content, diff) == content \o diff

\* f"{content}\n\nDiff:\n{diff}" if diff else content
with_diff(content, diff) ==
    IF diff # <<>> THEN content \o <<"\n", "\n", "Diff:", "\n">> \o diff ELSE content

\* get_file_content: what it raises, what it returns, and how many times it
\* ran the diff command
get_file_content(f, diff_mode, e) ==
    IF ~retrieves_diff(diff_mode)
    THEN LET t == read_text(f, e)
         IN  [raised |-> t.raised,
              value |-> IF t.raised = "none" THEN Some(t.value) ELSE None,
              gitCalls |-> 0]
    ELSE LET d == get_git_diff(f, e)
             t == read_text(f, e)
         IN  IF d.raised # "none"
             THEN [raised |-> d.raised, value |-> None, gitCalls |-> 1]
             ELSE IF skips_file(d.value, diff_mode)
             THEN [raised |-> "none", value |-> None, gitCalls |-> 1]
             ELSE IF diff_mode = DIFF_ONLY
             THEN [raised |-> "none", value |-> Some(d.value), gitCalls |-> 1]
             ELSE IF t.raised # "none"
             THEN [raised |-> t.raised, value |-> None, gitCalls |-> 1]
             ELSE [raised |-> "none", value |-> Some(with_diff(t.value, d.value)),
                   gitCalls |-> 1]

\* a variant that takes whatever is not a file for a directory
root_kind_lenient(path) == IF is_file(path) THEN "file" ELSE "dir"

\* the kind of root scan_directory is given
root_kind(path) ==
    IF is_file(path) THEN "file"
    ELSE IF is_dir(path) THEN "dir"
    ELSE "invalid"

\* include_set = {f".{ext.lstrip('.')}" for ext in (include or DEFAULT_EXTENSIONS)}
include_set(include) ==
    { <<".">> \o LStripDots(ext) :
        ext \in Range(IF Truthy(include) THEN Iter(include) ELSE DEFAULT_EXTENSIONS) }

\* the single-file filter: include and path.suffix.lstrip(".") not in include
rejects_file_root(path, include) ==
    Truthy(include) /\ ~Contains(LStripDots(Suffix(Name(path))), include)

\* abs_path.rglob("*"), entries by their path relative to the working directory
rglob(root) == SelectSeq(TreeSeq, LAMBDA p : IsPrefix(root, p) /\ p # root)

\* file_path.relative_to(abs_path)
relative_to(p, root) == SubSeq(p, Len(root) + 1, Len(p))

\* spec.match_file(str(rel_path))
is_excluded(spec, rel) == match_file(spec, rel)

\* a variant that compares the extension as spelled
extension_included_no_lower(p, incset) == Suffix(Name(p)) \in incset

\* file_path.suffix.lower() in include_set
extension_included(p, incset) == Lower(Suffix(Name(p))) \in incset

\* the key of a mapping entry: the path as the program holds it, absolute
\* (what a directory scan yields) or relative to the working directory
AbsKey(p) == [abs |-> TRUE, p |-> absolute(p)]
RelKey(p) == [abs |-> FALSE, p |-> p]

EmptyDict == [k \in {} |-> None]

\* a variant that stores only non-empty content ("if content:")
stores_truthy(content) == content.some /\ content.v # <<>>

\* whether the scan stores the content it resolved
stores(content) == content.some

\* one iteration of the loop of scan_directory
scan_entry(p, a, acc) ==
    IF acc.raised # "none" THEN acc
    ELSE IF ~is_file(p) THEN acc
    ELSE IF is_excluded(a.spec, relative_to(p, a.path)) THEN acc
    ELSE IF ~extension_included(p, a.include_set) THEN acc
    ELSE LET c == get_file_content(p, a.diff_mode, a.env)
         IN  [result |-> IF c.raised = "none" /\ stores(c.value)
                         THEN (AbsKey(p) :> c.value) @@ acc.result
                         ELSE acc.result,
              gitCalls |-> acc.gitCalls + c.gitCalls,
              raised |-> c.raised]

\* the loop of scan_directory over the entries still to visit
RECURSIVE scan_entries(_, _, _)
scan_entries(todo, a, acc) ==
    IF todo = <<>> THEN acc
    ELSE scan_entries(Tail(todo), a, scan_entry(Head(todo), a, acc))

(***************************************************************************)
(* resolve_paths and is_glob_pattern (copychat/core.py, as exercised by    *)
(* tests/test_core.py): a mixed list of literal paths and glob expressions *)
(* becomes a list of paths under a base directory.                         *)
(***************************************************************************)
GLOB_CHARS == {"*", "?", "["}

\* whether a path string holds a glob wildcard character
is_glob_pattern(s) == \E i \in 1..Len(s) : s[i] \in GLOB_CHARS

\* the components of a path string
RECURSIVE SplitSlash(_)
SplitSlash(s) ==
    IF \E i \in 1..Len(s) : s[i] = "/"
    THEN LET i == CHOOSE j \in 1..Len(s) :
                     s[j] = "/" /\ \A k \in 1..(j - 1) : s[k] # "/"
         IN  <<SubSeq(s, 1, i - 1)>> \o SplitSlash(SubSeq(s, i + 1, Len(s)))
    ELSE <<s>>

STARSTAR == <<"*", "*">>

\* a relative path against the segments of a glob expression: "**" stands
\* for any number of directories, any other segment for one component
RECURSIVE MatchSegs(_, _)
MatchSegs(segs, rel) ==
    IF segs = <<>> THEN rel = <<>>
    ELSE IF Head(segs) = STARSTAR
         THEN \/ MatchSegs(Tail(segs), rel)
              \/ (Len(rel) > 1 /\ MatchSegs(segs, Tail(rel)))
         ELSE /\ rel # <<>>
              /\ GlobMatch(Head(segs), Head(rel))
              /\ MatchSegs(Tail(segs), Tail(rel))

\* recursive glob matching rooted at base: the entries below base, files and
\* directories, that the expression matches at any depth
glob_matches(pattern, base) ==
    SelectSeq(TreeSeq,
              LAMBDA p : /\ IsPrefix(base, p)
                         /\ p # base
                         /\ MatchSegs(<<STARSTAR>> \o SplitSlash(pattern),
                                      relative_to(p, base)))

\* a variant that keeps a literal path only if it exists
literal_path_if_exists(path, base) ==
    IF is_file(base \o SplitSlash(path)) \/ is_dir(base \o SplitSlash(path))
    THEN <<base \o SplitSlash(path)>>
    ELSE <<>>

\* base / path, with no existence check
literal_path(path, base) == <<base \o SplitSlash(path)>>

(***************************************************************************)
(* copychat/format.py and the command's outputs.  An output text is a      *)
(* sequence of pieces: literal text, or the formatted document of a set of *)
(* paths.                                                                  *)
(***************************************************************************)
Lit(t) == [kind |-> "lit", text |-> t, keys |-> {}]
Fmt(keys) == [kind |-> "fmt", text |-> "", keys |-> keys]

\* format_files, given a list of paths
format_files(keys) == <<Fmt(keys)>>

\* what main hands to the formatter, list(all_files.keys()): the paths, and
\* no text with any of them
formatter_argument(d) == [paths |-> DOMAIN d, texts |-> EmptyDict]

OldFile == <<Lit("old file")>>
OldClipboard == <<Lit("old clipboard")>>
Separator == <<Lit("\n\n")>>

(***************************************************************************)
(* The calls explored.                                                     *)
(***************************************************************************)
PY == <<"p","y">>
DOT_PY == <<".","p","y">>
UPPER_PY == <<"P","Y">>
LOG == <<"l","o","g">>
PAT_LOGS == <<"*",".","l","o","g">>
PAT_KEEP == <<"!","i","m","p","o","r","t","a","n","t",".","l","o","g">>
PY_LOG == <<"p","y",",","l","o","g">>

Roots == { <<>>, <<SRC>>, <<A_PY>>, <<DEBUG_LOG>>, <<MISSING>> }
Includes ==
    { NoInclude, ListInclude(<<PY>>), ListInclude(<<DOT_PY, LOG>>),
      ListInclude(<<UPPER_PY>>) }
Excludes == { None, Some(<<PAT_LOGS, PAT_KEEP>>), Some(<<PAT_KEEP, PAT_LOGS>>) }

NoOutput == [outfile |-> "none", append |-> FALSE, print |-> FALSE]

Call(op, start, path, include, exclude, mode, verbose, paths, output) ==
    [op |-> op, start |-> start, path |-> path, include |-> include,
     exclude |-> exclude, mode |-> mode, verbose |-> verbose, paths |-> paths,
     output |-> output]

FindCalls ==
    { Call("find_gitignore", d, <<>>, NoInclude, None, FULL, FALSE, <<>>, NoOutput) :
        d \in ChainDirs }
FindEnvs == { Env(gi, DefaultLines, TRUE, "ok", {}) : gi \in SUBSET ChainDirs }

ContentCalls ==
    { Call(op, <<>>, f, NoInclude, None, m, FALSE, <<>>, NoOutput) :
        op \in {"get_file_content", "get_git_diff"}, f \in Files, m \in DiffMode }
ContentEnvs ==
    { Env({}, DefaultLines, TRUE, g, u) :
        g \in {"ok", "failing", "missing"}, u \in {{}, {<<SRC, MAIN_PY>>}} }

ScanCalls ==
    { Call("scan_directory", <<>>, r, i, x, m, v, <<>>, NoOutput) :
        r \in Roots, i \in Includes, x \in Excludes, m \in DiffMode, v \in BOOLEAN }

RECURSIVE SeqsUpTo(_, _)
SeqsUpTo(S, n) ==
    IF n = 0 THEN {<<>>}
    ELSE LET shorter == SeqsUpTo(S, n - 1)
         IN  shorter \cup {Append(q, x) : q \in shorter, x \in S}

STAR_PY == <<"*",".","p","y">>
STAR_MD == <<"*",".","m","d">>
SRC_GLOB_PY == <<"s","r","c","/","*","*","/","*",".","p","y">>
SRC_MAIN_PY == <<"s","r","c","/","m","a","i","n",".","p","y">>

\* the path strings given to resolve_paths
PathStrings == { STAR_PY, STAR_MD, SRC_GLOB_PY, SRC, SRC_MAIN_PY, MISSING }

ResolveCalls ==
    { Call("resolve_paths", <<>>, b, NoInclude, None, FULL, FALSE, ps, NoOutput) :
        b \in {<<>>, <<SRC>>}, ps \in SeqsUpTo(PathStrings, MaxPaths) }
ResolveEnvs == { Env({}, DefaultLines, TRUE, "ok", {}) }

Outputs ==
    { NoOutput,
      [outfile |-> "none", append |-> TRUE, print |-> TRUE],
      [outfile |-> "new", append |-> FALSE, print |-> TRUE],
      [outfile |-> "existing", append |-> TRUE, print |-> FALSE],
      [outfile |-> "existing", append |-> TRUE, print |-> TRUE] }

MainCalls ==
    { Call("main", <<>>, <<>>, i, x, m, FALSE, ps, o) :
        i \in {NoInclude, StrInclude(PY), StrInclude(PY_LOG)},
        x \in {None, Some(<<PAT_LOGS>>)},
        m \in {FULL, CHANGED_WITH_DIFF},
        ps \in SeqsUpTo(Roots, MaxPaths),
        o \in Outputs }
MainEnvs ==
    { Env({Cwd}, DefaultLines, TRUE, "ok", {}),
      Env({Cwd}, DefaultLines, TRUE, "missing", {<<SRC, MAIN_PY>>}) }

(***************************************************************************)
(* The state.                                                              *)
(***************************************************************************)
VARIABLES
    env,            \* the environment
    call,           \* the operation called and its arguments
    pc,             \* where the program is
    scan,           \* the arguments of the running scan_directory
    current,        \* find_gitignore: the directory under examination
    gitignore_path, \* find_gitignore's return value: the directory of the .gitignore found
    patterns,       \* get_gitignore_spec: the pattern list
    files,          \* scan_directory's return value
    raised,         \* the exception that reached the caller, or "none"
    gitCalls,       \* how many times the diff command was run
    ret,            \* the return value of get_file_content or get_git_diff
    paths,          \* main: the path arguments
    idx,            \* main: the position in paths
    all_files,      \* main: the merged mapping
    out,            \* main: what was formatted, written, copied, printed; the exit code
    resolved        \* resolve_paths: the list built so far

vars == <<env, call, pc, scan, current, gitignore_path, patterns, files, raised,
          gitCalls, ret, paths, idx, all_files, out, resolved>>

ScanArgs(path, include, exclude_patterns, diff_mode, verbose) ==
    [path |-> path, include |-> include, exclude_patterns |-> exclude_patterns,
     diff_mode |-> diff_mode, verbose |-> verbose]

EntryPc(op) ==
    CASE op = "find_gitignore" -> "find_gitignore"
      [] op = "get_file_content" -> "get_file_content"
      [] op = "get_git_diff" -> "get_git_diff"
      [] op = "scan_directory" -> "scan_directory"
      [] op = "resolve_paths" -> "resolve_paths"
      [] OTHER -> "main"

Init ==
    /\ \/ call \in FindCalls /\ env \in FindEnvs
       \/ call \in ContentCalls /\ env \in ContentEnvs
       \/ call \in ScanCalls /\ env \in Envs
       \/ call \in MainCalls /\ env \in MainEnvs
       \/ call \in ResolveCalls /\ env \in ResolveEnvs
    /\ pc = EntryPc(call.op)
    /\ scan = ScanArgs(call.path, call.include, call.exclude, call.mode, call.verbose)
    /\ current = call.start
    /\ gitignore_path = None
    /\ patterns = <<>>
    /\ files = EmptyDict
    /\ raised = "none"
    /\ gitCalls = 0
    /\ ret = None
    /\ paths = <<>>
    /\ idx = 1
    /\ all_files = EmptyDict
    /\ out = [formatted |-> FALSE,
              handed |-> [paths |-> {}, texts |-> EmptyDict],
              file |-> IF call.output.outfile = "existing" THEN Some(OldFile) ELSE None,
              clipboard |-> OldClipboard,
              stdout |-> <<>>,
              exit |-> -1]
    /\ resolved = <<>>

\* where control goes when scan_directory returns, and when it raises
ReturnPc == IF call.op = "main" THEN "main_update" ELSE "done"
RaisePc == IF call.op = "main" THEN "main_except" ELSE "done"

(***************************************************************************)
(* find_gitignore: the loop, one iteration per step.                       *)
(***************************************************************************)
\* a variant of the loop condition that never sees the filesystem root
at_root_never(dir) == FALSE

\* while current != current.parent
at_root(dir) == dir = Parent(dir)

AfterFind == IF call.op = "find_gitignore" THEN "done" ELSE "get_gitignore_spec"

find_gitignore_found ==
    /\ pc = "find_gitignore"
    /\ ~at_root(current)
    /\ has_gitignore(current, env)
    /\ gitignore_path' = Some(current)
    /\ pc' = AfterFind
    /\ UNCHANGED <<env, call, scan, current, patterns, files, raised, gitCalls, ret,
                   paths, idx, all_files, out,
                   resolved>>

find_gitignore_ascend ==
    /\ pc = "find_gitignore"
    /\ ~at_root(current)
    /\ ~has_gitignore(current, env)
    /\ current' = Parent(current)
    /\ UNCHANGED <<env, call, pc, scan, gitignore_path, patterns, files, raised,
                   gitCalls, ret, paths, idx, all_files, out,
                   resolved>>

find_gitignore_not_found ==
    /\ pc = "find_gitignore"
    /\ at_root(current)
    /\ gitignore_path' = None
    /\ pc' = AfterFind
    /\ UNCHANGED <<env, call, scan, current, patterns, files, raised, gitCalls, ret,
                   paths, idx, all_files, out,
                   resolved>>

(***************************************************************************)
(* get_file_content and get_git_diff, called directly.                     *)
(***************************************************************************)
get_file_content_call ==
    /\ pc = "get_file_content"
    /\ LET r == get_file_content(call.path, call.mode, env)
       IN  /\ ret' = r.value
           /\ raised' = r.raised
           /\ gitCalls' = gitCalls + r.gitCalls
    /\ pc' = "done"
    /\ UNCHANGED <<env, call, scan, current, gitignore_path, patterns, files, paths,
                   idx, all_files, out,
                   resolved>>

get_git_diff_call ==
    /\ pc = "get_git_diff"
    /\ LET r == get_git_diff(call.path, env)
       IN  /\ ret' = IF r.raised = "none" THEN Some(r.value) ELSE None
           /\ raised' = r.raised
    /\ gitCalls' = gitCalls + 1
    /\ pc' = "done"
    /\ UNCHANGED <<env, call, scan, current, gitignore_path, patterns, files, paths,
                   idx, all_files, out,
                   resolved>>

(***************************************************************************)
(* scan_directory.                                                         *)
(***************************************************************************)
\* the root is a file: only the extension is looked at
scan_file_root ==
    /\ pc = "scan_directory"
    /\ root_kind(scan.path) = "file"
    /\ files' = IF rejects_file_root(scan.path, scan.include)
                THEN EmptyDict
                ELSE (RelKey(scan.path) :> None)
    /\ pc' = ReturnPc
    /\ UNCHANGED <<env, call, scan, current, gitignore_path, patterns, raised,
                   gitCalls, ret, paths, idx, all_files, out,
                   resolved>>

\* the root is neither a file nor a directory: ValueError
scan_invalid_root ==
    /\ pc = "scan_directory"
    /\ root_kind(scan.path) = "invalid"
    /\ raised' = "ValueError"
    /\ pc' = RaisePc
    /\ UNCHANGED <<env, call, scan, current, gitignore_path, patterns, files,
                   gitCalls, ret, paths, idx, all_files, out,
                   resolved>>

\* the root is a directory: get_gitignore_spec starts its pattern list and,
\* if it searches at all, calls find_gitignore(abs_path)
scan_begin ==
    /\ pc = "scan_directory"
    /\ root_kind(scan.path) = "dir"
    /\ patterns' = base_patterns(scan.exclude_patterns)
    /\ IF searches_gitignore(scan.verbose)
       THEN /\ current' = absolute(scan.path)
            /\ pc' = "find_gitignore"
            /\ UNCHANGED gitignore_path
       ELSE /\ gitignore_path' = None
            /\ pc' = "get_gitignore_spec"
            /\ UNCHANGED current
    /\ UNCHANGED <<env, call, scan, files, raised, gitCalls, ret, paths, idx,
                   all_files, out,
                   resolved>>

\* get_gitignore_spec, once find_gitignore has answered: read the file found
get_gitignore_spec ==
    /\ pc = "get_gitignore_spec"
    /\ IF gitignore_path.some /\ ~env.giReadable
       THEN /\ raised' = "PermissionError"
            /\ pc' = RaisePc
            /\ UNCHANGED patterns
       ELSE /\ patterns' = IF gitignore_path.some
                           THEN patterns \o gitignore_patterns(env.giLines)
                           ELSE patterns
            /\ pc' = "scan_loop"
            /\ UNCHANGED raised
    /\ UNCHANGED <<env, call, scan, current, gitignore_path, files, gitCalls, ret,
                   paths, idx, all_files, out,
                   resolved>>

\* the traversal, and the return
scan_loop ==
    /\ pc = "scan_loop"
    /\ LET a == [path |-> scan.path, spec |-> patterns,
                 include_set |-> include_set(scan.include),
                 diff_mode |-> scan.diff_mode, env |-> env]
           r == scan_entries(rglob(scan.path), a,
                             [result |-> EmptyDict, gitCalls |-> 0, raised |-> "none"])
       IN  /\ gitCalls' = gitCalls + r.gitCalls
           /\ IF r.raised # "none"
              THEN /\ raised' = r.raised
                   /\ pc' = RaisePc
                   /\ UNCHANGED files
              ELSE /\ files' = r.result
                   /\ pc' = ReturnPc
                   /\ UNCHANGED raised
    /\ UNCHANGED <<env, call, scan, current, gitignore_path, patterns, ret, paths,
                   idx, all_files, out,
                   resolved>>

(***************************************************************************)
(* cli.py: main, for a filesystem source in the working directory.         *)
(***************************************************************************)
\* if not paths: paths = ["."]; all_files = {}
main_begin ==
    /\ pc = "main"
    /\ paths' = IF call.paths = <<>> THEN << <<>> >> ELSE call.paths
    /\ idx' = 1
    /\ all_files' = EmptyDict
    /\ pc' = "main_loop"
    /\ UNCHANGED <<env, call, scan, current, gitignore_path, patterns, files, raised,
                   gitCalls, ret, out,
                   resolved>>

\* a path argument that is a file: all_files[target] = None
main_file_arg ==
    /\ pc = "main_loop"
    /\ idx <= Len(paths)
    /\ is_file(paths[idx])
    /\ all_files' = (RelKey(paths[idx]) :> None) @@ all_files
    /\ idx' = idx + 1
    /\ UNCHANGED <<env, call, pc, scan, current, gitignore_path, patterns, files,
                   raised, gitCalls, ret, paths, out,
                   resolved>>

\* any other path argument: scan_directory(target, include, exclude, diff_mode)
main_scan_arg ==
    /\ pc = "main_loop"
    /\ idx <= Len(paths)
    /\ ~is_file(paths[idx])
    /\ scan' = ScanArgs(paths[idx], call.include, call.exclude, call.mode, FALSE)
    /\ pc' = "scan_directory"
    /\ UNCHANGED <<env, call, current, gitignore_path, patterns, files, raised,
                   gitCalls, ret, paths, idx, all_files, out,
                   resolved>>

\* all_files.update(files)
main_update ==
    /\ pc = "main_update"
    /\ all_files' = files @@ all_files
    /\ idx' = idx + 1
    /\ pc' = "main_loop"
    /\ UNCHANGED <<env, call, scan, current, gitignore_path, patterns, files, raised,
                   gitCalls, ret, paths, out,
                   resolved>>

\* if not all_files: raise typer.Exit(1)
main_no_files ==
    /\ pc = "main_loop"
    /\ idx > Len(paths)
    /\ DOMAIN all_files = {}
    /\ out' = [out EXCEPT !.exit = 1]
    /\ pc' = "done"
    /\ UNCHANGED <<env, call, scan, current, gitignore_path, patterns, files, raised,
                   gitCalls, ret, paths, idx, all_files,
                   resolved>>

\* format, write the output file, copy to the clipboard, print
main_output ==
    /\ pc = "main_loop"
    /\ idx > Len(paths)
    /\ DOMAIN all_files # {}
    /\ LET o == call.output
           handed == formatter_argument(all_files)
           formatted == format_files(handed.paths)
           forFile == IF o.outfile # "none" /\ o.append /\ out.file.some
                      THEN out.file.v \o Separator \o formatted
                      ELSE formatted
           forClipboard == IF o.append
                           THEN out.clipboard \o Separator \o forFile
                           ELSE forFile
       IN  out' = [formatted |-> TRUE,
                   handed |-> handed,
                   file |-> IF o.outfile # "none" THEN Some(forFile) ELSE out.file,
                   clipboard |-> forClipboard,
                   stdout |-> IF o.print THEN forClipboard ELSE out.stdout,
                   exit |-> 0]
    /\ pc' = "done"
    /\ UNCHANGED <<env, call, scan, current, gitignore_path, patterns, files, raised,
                   gitCalls, ret, paths, idx, all_files,
                   resolved>>

\* except Exception: raise typer.Exit(1)
main_except ==
    /\ pc = "main_except"
    /\ out' = [out EXCEPT !.exit = 1]
    /\ pc' = "done"
    /\ UNCHANGED <<env, call, scan, current, gitignore_path, patterns, files, raised,
                   gitCalls, ret, paths, idx, all_files,
                   resolved>>

(***************************************************************************)
(* resolve_paths(paths, base_path): the loop, one input per step.          *)
(***************************************************************************)
\* an input with a wildcard: all its matches are appended
resolve_glob ==
    /\ pc = "resolve_paths"
    /\ idx <= Len(call.paths)
    /\ is_glob_pattern(call.paths[idx])
    /\ resolved' = resolved \o glob_matches(call.paths[idx], call.path)
    /\ idx' = idx + 1
    /\ UNCHANGED <<env, call, pc, scan, current, gitignore_path, patterns, files,
                   raised, gitCalls, ret, paths, all_files, out>>

\* an input without wildcard: base / path is appended
resolve_literal ==
    /\ pc = "resolve_paths"
    /\ idx <= Len(call.paths)
    /\ ~is_glob_pattern(call.paths[idx])
    /\ resolved' = resolved \o literal_path(call.paths[idx], call.path)
    /\ idx' = idx + 1
    /\ UNCHANGED <<env, call, pc, scan, current, gitignore_path, patterns, files,
                   raised, gitCalls, ret, paths, all_files, out>>

resolve_return ==
    /\ pc = "resolve_paths"
    /\ idx > Len(call.paths)
    /\ pc' = "done"
    /\ UNCHANGED <<env, call, scan, current, gitignore_path, patterns, files,
                   raised, gitCalls, ret, paths, idx, all_files, out, resolved>>

(***************************************************************************)
(* The specification.                                                      *)
(***************************************************************************)
Next ==
    \/ find_gitignore_found
    \/ find_gitignore_ascend
    \/ find_gitignore_not_found
    \/ get_file_content_call
    \/ get_git_diff_call
    \/ scan_file_root
    \/ scan_invalid_root
    \/ scan_begin
    \/ get_gitignore_spec
    \/ scan_loop
    \/ main_begin
    \/ main_file_arg
    \/ main_scan_arg
    \/ main_update
    \/ main_no_files
    \/ main_output
    \/ main_except
    \/ resolve_glob
    \/ resolve_literal
    \/ resolve_return

Spec == Init /\ [][Next]_vars

\* find_gitignore alone, called from every directory of the chain under every
\* placement of .gitignore files.  The program is sequential and nothing
\* suspends it: an iteration that can be taken is taken.
FindInit == Init /\ call.op = "find_gitignore"

FindNext ==
    \/ find_gitignore_found
    \/ find_gitignore_ascend
    \/ find_gitignore_not_found

FindSpec == FindInit /\ [][FindNext]_vars /\ WF_vars(FindNext)

(***************************************************************************)
(* Vocabulary of the properties.                                           *)
(***************************************************************************)
\* scan_directory has returned a mapping (to its caller, or to main)
Returned ==
    \/ call.op = "scan_directory" /\ pc = "done" /\ raised = "none"
    \/ pc = "main_update"

\* ... for a root that is a directory
ReturnedDir == Returned /\ root_kind(scan.path) = "dir"

\* the files below a directory root
Below(root) == {p \in Files : IsPrefix(root, p) /\ p # root}

\* the files below the root that pass the extension filter and the exclusion
\* spec the scan compiled
FilteredIn(root) ==
    { p \in Below(root) :
        /\ Lower(Suffix(Name(p))) \in include_set(scan.include)
        /\ ~match_file(patterns, relative_to(p, root)) }

\* the diff text the version-control tool yields for a file: empty when the
\* file is unchanged and when the tool yields nothing
DiffText(p) == IF env.git = "ok" THEN WorkingTreeDiff(p) ELSE <<>>

\* a directory and its ancestors, the filesystem root included
Chain(dir) == {SubSeq(dir, 1, k) : k \in 0..Len(dir)}

Deepest(S) == CHOOSE d \in S : \A e \in S : Len(e) <= Len(d)

\* the index of the last pattern of a list that matches a path, 0 if none
LastMatch(list, rel) ==
    LET hits == {i \in 1..Len(list) : PatternMatches(CompilePattern(list[i]), rel)}
    IN  IF hits = {} THEN 0 ELSE CHOOSE i \in hits : \A j \in hits : j <= i

\* a path is excluded by a list exactly when the last match is not a negation
ExcludedBy(list, rel) ==
    LET i == LastMatch(list, rel)
    IN  i # 0 /\ CompilePattern(list[i]).include = "exclude"

\* the lines of a list that are patterns
Effective(list) == SelectSeq(list, LAMBDA l : CompilePattern(l).include # "none")

(***************************************************************************)
(* C1: every key of the mapping scan_directory returns for a directory     *)
(* root is a regular file below the root whose lowercase extension is in   *)
(* the include set, whose root-relative path the compiled exclusion spec   *)
(* does not exclude, and for which get_file_content did not return None    *)
(* under the active diff mode.                                             *)
(***************************************************************************)
C1_KeysPassAllFilters ==
    ReturnedDir =>
        \A k \in DOMAIN files :
            \E p \in Below(scan.path) :
                /\ k = AbsKey(p)
                /\ Lower(Suffix(Name(p))) \in include_set(scan.include)
                /\ ~match_file(patterns, relative_to(p, scan.path))
                /\ get_file_content(p, scan.diff_mode, env).value # None

\* a scan of the working directory in changed-with-diff kept important.log
\* and left out debug.log, b.PY and build/gen.py
C1_Witness ==
    /\ ReturnedDir
    /\ scan.path = <<>>
    /\ scan.diff_mode = CHANGED_WITH_DIFF
    /\ DOMAIN files = {AbsKey(<<A_PY>>), AbsKey(<<IMPORTANT_LOG>>), AbsKey(<<SRC, MAIN_PY>>)}

(***************************************************************************)
(* C2: in the mapping a directory scan returns, a file that passed the     *)
(* extension and exclusion filters is absent exactly when the diff mode is *)
(* changed-with-diff or diff-only and the file's diff is empty; under full *)
(* and full-with-diff no such file is dropped.                             *)
(***************************************************************************)
C2_DroppedIffNoDiff ==
    ReturnedDir =>
        \A p \in FilteredIn(scan.path) :
            (AbsKey(p) \notin DOMAIN files)
                <=> (/\ scan.diff_mode \in {CHANGED_WITH_DIFF, DIFF_ONLY}
                     /\ DiffText(p) = <<>>)

\* a diff-only scan dropped the unchanged b.PY and kept the changed a.py;
\* a full scan kept the empty b.PY
C2_Witness ==
    /\ ReturnedDir
    /\ <<B_PY>> \in FilteredIn(scan.path)
    /\ \/ /\ scan.diff_mode = DIFF_ONLY
          /\ AbsKey(<<B_PY>>) \notin DOMAIN files
          /\ AbsKey(<<A_PY>>) \in DOMAIN files
       \/ /\ scan.diff_mode = FULL
          /\ AbsKey(<<B_PY>>) \in DOMAIN files
          /\ env.git = "missing"

(***************************************************************************)
(* C3: in mode full, get_file_content returns exactly the file's text,     *)
(* whatever the file's diff, and the diff command is never run: not by a   *)
(* direct call, and not during a whole scan or command invocation.         *)
(***************************************************************************)
C3_FullNeverDiffs ==
    /\ (call.op \in {"get_file_content", "scan_directory", "main"} /\ call.mode = FULL)
           => gitCalls = 0
    /\ (call.op = "get_file_content" /\ call.mode = FULL /\ pc = "done"
            /\ raised = "none")
           => ret = Some(FileText(call.path))
    /\ (ReturnedDir /\ scan.diff_mode = FULL)
           => \A p \in Below(scan.path) :
                  AbsKey(p) \in DOMAIN files => files[AbsKey(p)] = Some(FileText(p))

\* a full scan returned the text of a file that has a diff
C3_Witness ==
    /\ ReturnedDir
    /\ scan.diff_mode = FULL
    /\ env.git = "ok"
    /\ AbsKey(<<SRC, MAIN_PY>>) \in DOMAIN files
    /\ files[AbsKey(<<SRC, MAIN_PY>>)] = Some(<<"def main():", "\n", "pass">>)
    /\ WorkingTreeDiff(<<SRC, MAIN_PY>>) # <<>>

(***************************************************************************)
(* C4: whenever get_file_content returns a value in a diff mode, the value *)
(* is determined by the file's text, its diff and the mode: in diff-only   *)
(* the diff; in full-with-diff and changed-with-diff with a non-empty diff *)
(* the text, a blank-line separator, the heading "Diff:" and the diff; in  *)
(* full-with-diff with an empty diff the text unchanged.                   *)
(***************************************************************************)
ExpectedContent(text, diff, mode) ==
    IF mode = DIFF_ONLY THEN diff
    ELSE IF diff # <<>> THEN text \o <<"\n", "\n", "Diff:", "\n">> \o diff
    ELSE text

C4_ContentByMode ==
    /\ (call.op = "get_file_content" /\ pc = "done" /\ raised = "none"
            /\ call.mode # FULL /\ ret.some)
           => ret.v = ExpectedContent(FileText(call.path), DiffText(call.path), call.mode)
    /\ (ReturnedDir /\ scan.diff_mode # FULL)
           => \A p \in Below(scan.path) :
                  AbsKey(p) \in DOMAIN files =>
                      files[AbsKey(p)] =
                          Some(ExpectedContent(FileText(p), DiffText(p), scan.diff_mode))

\* a direct call returned text, separator, heading and diff
C4_Witness ==
    /\ call.op = "get_file_content"
    /\ pc = "done"
    /\ call.mode = FULL_WITH_DIFF
    /\ call.path = <<A_PY>>
    /\ ret = Some(<<"print(1)", "\n", "\n", "Diff:", "\n", "@@ a.py @@">>)

(***************************************************************************)
(* C5: whenever a .gitignore (that can be read) exists in the scan root or  *)
(* one of its ancestors, its patterns are part of the compiled exclusion   *)
(* spec, whatever the verbose flag: a file that only a .gitignore pattern  *)
(* matches is absent from the scan result.                                 *)
(***************************************************************************)
C5_GitignoreAlwaysApplied ==
    (ReturnedDir /\ Chain(absolute(scan.path)) \cap env.gi # {} /\ env.giReadable) =>
        \A p \in Below(scan.path) :
            LET rel == relative_to(p, scan.path)
                base == base_patterns(scan.exclude_patterns)
            IN  (/\ ~ExcludedBy(base, rel)
                 /\ ExcludedBy(base \o gitignore_patterns(env.giLines), rel))
                    => AbsKey(p) \notin DOMAIN files

(***************************************************************************)
(* C6: the exclusion spec is compiled from the default patterns, then the  *)
(* default directories with a trailing "/", then the caller's patterns in  *)
(* the order given, then the lines of the .gitignore found (if it can be   *)
(* read) in file order; a path is excluded exactly when the last pattern   *)
(* of this list that matches it is not a negation.                         *)
(***************************************************************************)
ClaimedPatternList ==
    EXCLUDED_PATTERNS
    \o [i \in 1..Len(EXCLUDED_DIRS) |-> EXCLUDED_DIRS[i] \o <<"/">>]
    \o scan.exclude_patterns.v
    \o (IF Chain(absolute(scan.path)) \cap env.gi # {} /\ env.giReadable
        THEN [i \in 1..Len(env.giLines) |-> Strip(env.giLines[i])]
        ELSE <<>>)

C6_OrderedListLastMatchWins ==
    /\ pc = "scan_loop" => Effective(patterns) = Effective(ClaimedPatternList)
    /\ ReturnedDir =>
           \A p \in Below(scan.path) :
               (/\ Lower(Suffix(Name(p))) \in include_set(scan.include)
                /\ get_file_content(p, scan.diff_mode, env).value # None)
                   => (AbsKey(p) \notin DOMAIN files
                          <=> ExcludedBy(ClaimedPatternList, relative_to(p, scan.path)))

(***************************************************************************)
(* C7: find_gitignore terminates for every start; when two directories of  *)
(* the chain start, parent(start), ... hold a .gitignore it returns the    *)
(* nearer one, and when none does it returns None without raising.         *)
(***************************************************************************)
FindAnswer ==
    LET found == Chain(call.start) \cap env.gi
    IN  /\ pc # "find_gitignore"
        /\ raised = "none"
        /\ Cardinality(found) >= 2 => gitignore_path = Some(Deepest(found))
        /\ found = {} => gitignore_path = None

C7_FindTerminatesNearest == (pc = "find_gitignore") ~> FindAnswer

\* a search from src, with a .gitignore in src and one above, answered src
C7_Witness ==
    /\ call.op = "find_gitignore"
    /\ pc = "done"
    /\ call.start = Cwd \o <<SRC>>
    /\ {Cwd, Cwd \o <<SRC>>} \subseteq env.gi
    /\ gitignore_path = Some(Cwd \o <<SRC>>)

(***************************************************************************)
(* C8: get_git_diff never raises: it returns the command's output when     *)
(* the command succeeds and the empty string in every failure case, a      *)
(* non-zero exit and a missing binary included.                            *)
(***************************************************************************)
C8_DiffNeverRaises ==
    (call.op = "get_git_diff" /\ pc = "done") =>
        /\ raised = "none"
        /\ ret = Some(DiffText(call.path))

(***************************************************************************)
(* C9: for a root that is a file or a directory, scan_directory surfaces   *)
(* no error: an unreadable .gitignore contributes no patterns, and a file  *)
(* whose text cannot be read does not abort the scan.  (The version-control*)
(* binary is present: its absence is the subject of C8.)                   *)
(***************************************************************************)
C9_ScanSurfacesNoError ==
    (/\ call.op = "scan_directory"
     /\ pc = "done"
     /\ root_kind(call.path) # "invalid"
     /\ env.git # "missing")
        => raised = "none"

(***************************************************************************)
(* C10: for a root that is neither a file nor a directory scan_directory   *)
(* raises and returns no mapping; a command invocation with such a root    *)
(* anywhere among its paths ends with an error exit, nothing formatted,    *)
(* nothing written to the output file, copied or printed.                  *)
(***************************************************************************)
HasInvalidRoot == \E i \in 1..Len(paths) : root_kind(paths[i]) = "invalid"

C11_FileRootResolved ==
    (/\ call.op = "scan_directory"
     /\ pc = "done"
     /\ raised = "none"
     /\ root_kind(call.path) = "file") =>
        LET c == get_file_content(call.path, call.mode, env)
        IN  IF /\ Truthy(call.include)
               /\ Lower(Suffix(Name(call.path))) \notin include_set(call.include)
            THEN files = EmptyDict
            ELSE (c.raised = "none" /\ c.value.some)
                     => files = (RelKey(call.path) :> c.value)

(***************************************************************************)
(* C12: the include set of a scan is the set of the extensions supplied,   *)
(* as a list or as one comma-separated string, each in lowercase with      *)
(* exactly one leading dot (the built-in set when none is supplied): a     *)
(* file below a directory root that is not excluded and whose content is   *)
(* not dropped is in the result exactly when its lowercase extension is in *)
(* that set.                                                               *)
(***************************************************************************)
\* the items of a comma-separated string
RECURSIVE SplitCommas(_)
SplitCommas(s) ==
    IF \E i \in 1..Len(s) : s[i] = ","
    THEN LET i == CHOOSE j \in 1..Len(s) :
                     s[j] = "," /\ \A k \in 1..(j - 1) : s[k] # ","
         IN  <<SubSeq(s, 1, i - 1)>> \o SplitCommas(SubSeq(s, i + 1, Len(s)))
    ELSE <<s>>

ClaimedIncludeSet(include) ==
    LET given == IF ~Truthy(include) THEN DEFAULT_EXTENSIONS
                 ELSE IF include.kind = "str" THEN SplitCommas(include.val)
                 ELSE include.val
    IN  { <<".">> \o LStripDots(Lower(ext)) : ext \in Range(given) }

C12_IncludeSetNormalized ==
    ReturnedDir =>
        \A p \in Below(scan.path) :
            (/\ ~match_file(patterns, relative_to(p, scan.path))
             /\ get_file_content(p, scan.diff_mode, env).value # None)
                => (AbsKey(p) \in DOMAIN files
                       <=> Lower(Suffix(Name(p))) \in ClaimedIncludeSet(scan.include))

(***************************************************************************)
(* C13: every key of the merged mapping the command formats is a file that *)
(* passed the scan-time filters: its lowercase extension is in the include *)
(* set, and for one of the path arguments it lies at or below, the         *)
(* exclusion patterns of the invocation do not exclude it.  This covers    *)
(* arguments that are single files.                                        *)
(***************************************************************************)
\* the path of a key, relative to the working directory
KeyPath(k) == IF k.abs THEN SubSeq(k.p, Len(Cwd) + 1, Len(k.p)) ELSE k.p

\* a file's path as matched against the patterns when scanning a root: relative
\* to the root, or the file's name when the root is the file itself
RelativeToRoot(p, root) ==
    IF p = root THEN <<Name(p)>> ELSE relative_to(p, root)

PassedFilters(p) ==
    /\ is_file(p)
    /\ Lower(Suffix(Name(p))) \in ClaimedIncludeSet(call.include)
    /\ \E i \in 1..Len(paths) :
           /\ IsPrefix(paths[i], p)
           /\ ~ExcludedBy(base_patterns(call.exclude), RelativeToRoot(p, paths[i]))

C13_MergedKeysPassFilters ==
    (call.op = "main" /\ out.formatted) =>
        \A k \in DOMAIN all_files : PassedFilters(KeyPath(k))

(***************************************************************************)
(* C14: what the command hands to the formatter carries, for every         *)
(* selected path that has a resolved text, that text (in diff-only the     *)
(* diff text), not the path alone.                                         *)
(***************************************************************************)
C14_TextsReachFormatter ==
    (call.op = "main" /\ out.formatted) =>
        \A k \in DOMAIN all_files :
            all_files[k].some =>
                /\ k \in out.handed.paths
                /\ k \in DOMAIN out.handed.texts
                /\ out.handed.texts[k] = all_files[k].v

(***************************************************************************)
(* C15: when the scans of a command invocation end without error and       *)
(* match no file, the command exits with code 0.                           *)
(***************************************************************************)
C15_NoFilesExitsZero ==
    (/\ call.op = "main"
     /\ pc = "done"
     /\ raised = "none"
     /\ DOMAIN all_files = {}) => out.exit = 0

(***************************************************************************)
(* C16: resolve_paths(paths, base) returns, in the order of the inputs,    *)
(* each input's contribution: for an input with a wildcard all its         *)
(* recursive glob matches under base (none when nothing matches), for an   *)
(* input without wildcard base/path whether or not it exists.  Nothing is  *)
(* deduplicated: the length of the result is the sum of the contributions. *)
(***************************************************************************)
\* the paths input i contributes
Contribution(i) ==
    IF \E j \in 1..Len(call.paths[i]) : call.paths[i][j] \in {"*", "?", "["}
    THEN { p \in Range(TreeSeq) :
             /\ IsPrefix(call.path, p)
             /\ p # call.path
             /\ MatchSegs(<<STARSTAR>> \o SplitSlash(call.paths[i]),
                          relative_to(p, call.path)) }
    ELSE { call.path \o SplitSlash(call.paths[i]) }

\* how many entries the inputs before input i contribute
RECURSIVE Offset(_)
Offset(i) == IF i = 1 THEN 0 ELSE Offset(i - 1) + Cardinality(Contribution(i - 1))

C16_ResolveConcatenates ==
    (call.op = "resolve_paths" /\ pc = "done") =>
        /\ Len(resolved) = Offset(Len(call.paths) + 1)
        /\ \A i \in 1..Len(call.paths) :
               {resolved[j] : j \in (Offset(i) + 1)..Offset(i + 1)} = Contribution(i)

\* src/main.py given literally and matched again by *.py: it is first and
\* last of the four entries
C16_Witness ==
    /\ call.op = "resolve_paths"
    /\ pc = "done"
    /\ call.path = <<>>
    /\ call.paths = <<SRC_MAIN_PY, STAR_PY>>
    /\ Len(resolved) = 4
    /\ resolved[1] = <<SRC, MAIN_PY>>
    /\ resolved[4] = <<SRC, MAIN_PY>>

(***************************************************************************)
(* C17: the upward search examines the start directory and every ancestor, *)
(* the filesystem root directory included: when the only .gitignore on the *)
(* chain is the one in the filesystem root, find_gitignore returns it.     *)
(***************************************************************************)
C17_SearchIncludesFsRoot ==
    (/\ call.op = "find_gitignore"
     /\ pc = "done"
     /\ Chain(call.start) \cap env.gi = {<<>>}) => gitignore_path = Some(<<>>)

(***************************************************************************)
(* C18: of a .gitignore that was found, every blank line and every line    *)
(* whose first non-space character is "#", indented comment lines          *)
(* included, contributes no entry to the pattern list; the remaining lines *)
(* are appended to the list in file order.                                 *)
(***************************************************************************)
IsBlankOrComment(line) == LStrip(line) = <<>> \/ StartsWith(LStrip(line), "#")

ClaimedGitignoreEntries(lines) ==
    LET kept == SelectSeq(lines, LAMBDA l : ~IsBlankOrComment(l))
    IN  [i \in 1..Len(kept) |-> Strip(kept[i])]

C18_CommentsAndBlanksDropped ==
    (pc = "scan_loop" /\ gitignore_path.some) =>
        patterns = base_patterns(scan.exclude_patterns)
                       \o ClaimedGitignoreEntries(env.giLines)

(***************************************************************************)
(* C19: when the command runs with --append and --out on an existing       *)
(* output file, afterwards the file holds its previous content followed by *)
(* the newly formatted output, and the clipboard holds its previous        *)
(* content followed by the newly formatted output only: the previous file  *)
(* content is neither copied to the clipboard nor printed.                 *)
(***************************************************************************)
C19_AppendStepsIndependent ==
    (/\ call.op = "main"
     /\ out.formatted
     /\ call.output.append
     /\ call.output.outfile = "existing") =>
        LET new == format_files(DOMAIN all_files)
        IN  /\ out.file = Some(OldFile \o Separator \o new)
            /\ out.clipboard = OldClipboard \o Separator \o new
            /\ \A i \in 1..Len(OldFile) :
                   OldFile[i] \notin Range(out.clipboard) \cup Range(out.stdout)

====
